---- MODULE Spec2Model ----
(***************************************************************************)
(* Model of src/nlft_qsp/poly_md.py: the bounded-support sequence          *)
(* ComplexL0SequenceMD and the Laurent polynomial PolynomialMD built on it.*)
(*                                                                         *)
(* Python values are tagged records (field t):                             *)
(*   num    a complex number with integer real and imaginary part          *)
(*   list   a Python list (a temporary: built, passed and consumed inside  *)
(*          one call)                                                      *)
(*   range  a Python range(start, stop)                                    *)
(*   ref    a reference to a ComplexL0SequenceMD object on the heap        *)
(*   str    some value that is neither a list nor a number                 *)
(*   none   None                                                           *)
(*   raise  an exception leaving the call                                  *)
(* Tuples of integers or of ranges are TLA+ sequences.                     *)
(*                                                                         *)
(* Objects of the class live on a heap keyed by address, so that two       *)
(* references to one object are visible as such: an object is the record   *)
(* [dim, start, coeffs] where coeffs holds num (dim = 1) or ref (dim > 1). *)
(***************************************************************************)
EXTENDS Integers, Sequences, FiniteSets, TLC

\* heap   the objects of the class, by address
\* slots  the client's variables p, q, r: a ref each, or None
\* last   the client's last call: its name, arguments and outcome
\* nset   the number of __setitem__ calls made so far
VARIABLES heap, slots, last, nset

vars == <<heap, slots, last, nset>>

-----------------------------------------------------------------------------
(* Python values *)

Num(re, im) == [t |-> "num", re |-> re, im |-> im]
List(s) == [t |-> "list", items |-> s]
Range(a, b) == [t |-> "range", start |-> a, stop |-> b]
Ref(a) == [t |-> "ref", a |-> a]
Raise(e) == [t |-> "raise", exc |-> e]
None == [t |-> "none"]
Str == [t |-> "str"]

IsRaise(x) == x.t = "raise"
IsNumber(x) == x.t = "num"
IsList(x) == x.t = "list"

Zero == Num(0, 0)

\* len(range(a, b))
RangeLen(rng) == IF rng.stop > rng.start THEN rng.stop - rng.start ELSE 0

\* x in range(a, b)
InRange(x, rng) == rng.start <= x /\ x < rng.stop

\* the first exception among the elements of s (s holds at least one)
FirstRaise(s) == s[CHOOSE i \in 1..Len(s) : IsRaise(s[i]) /\ \A j \in 1..(i - 1) : ~IsRaise(s[j])]

AnyRaise(s) == \E i \in 1..Len(s) : IsRaise(s[i])

Reverse(s) == [i \in 1..Len(s) |-> s[Len(s) + 1 - i]]

MinOf(S, default) == IF S = {} THEN default ELSE CHOOSE x \in S : \A y \in S : x <= y
MaxOf(S, default) == IF S = {} THEN default ELSE CHOOSE x \in S : \A y \in S : x >= y

-----------------------------------------------------------------------------
(* The numeric backend (numerics), exact on Gaussian integers *)

make_complex(c) == Num(c.re, c.im)
re(F) == F.re
im(F) == F.im
conj(x) == Num(x.re, -x.im)
CAdd(x, y) == Num(x.re + y.re, x.im + y.im)
CSub(x, y) == Num(x.re - y.re, x.im - y.im)
CNeg(x) == Num(-x.re, -x.im)
CMul(x, y) == Num(x.re * y.re - x.im * y.im, x.re * y.im + x.im * y.re)

-----------------------------------------------------------------------------
(* Heap *)

\* a fresh address: the least one not in use
Alloc(h) == CHOOSE a \in 1..(Cardinality(DOMAIN h) + 1) : a \notin DOMAIN h

Obj(dim, start, coeffs) == [dim |-> dim, start |-> start, coeffs |-> coeffs]

\* the result of a call that may change the heap
Res(h, ret) == [h |-> h, ret |-> ret]

\* F(e), with e evaluated once
Let(e, F(_)) == CHOOSE r \in {F(x) : x \in {e}} : TRUE

-----------------------------------------------------------------------------
(* Grid/support utilities *)

\* a covering range that takes the largest start instead of the smallest
minimal_covering_range_maxstart(l) ==
    IF Len(l) = 0 THEN <<>>
    ELSE LET N == MaxOf({Len(l[j]) : j \in 1..Len(l)}, 0)
             col(c) == {j \in 1..Len(l) : Len(l[j]) >= c}
         IN [c \in 1..N |->
                Range(MaxOf({l[j][c].start : j \in col(c)}, 0),
                      MaxOf({l[j][c].stop : j \in col(c)}, 0))]

minimal_covering_range(l) ==
    IF Len(l) = 0 THEN <<>>
    ELSE LET N == MaxOf({Len(l[j]) : j \in 1..Len(l)}, 0)
             col(c) == {j \in 1..Len(l) : Len(l[j]) >= c}
         IN [c \in 1..N |->
                Range(MinOf({l[j][c].start : j \in col(c)}, 0),
                      MaxOf({l[j][c].stop : j \in col(c)}, 0))]

RECURSIVE zeros(_)
zeros(lens) ==
    IF Len(lens) = 1 THEN List([i \in 1..lens[1] |-> make_complex(Zero)])
    ELSE IF Len(lens) = 0 THEN Raise("IndexError")
    ELSE IF lens[1] <= 0 THEN List(<<>>)
    ELSE LET row == zeros(Tail(lens))
         IN IF IsRaise(row) THEN row ELSE List([i \in 1..lens[1] |-> row])

-----------------------------------------------------------------------------
(* ComplexL0SequenceMD *)

RECURSIVE ComplexL0SequenceMD(_, _, _)
RECURSIVE init_rows(_, _, _, _, _)

\* the loop of the constructor over the rows of a nested coefficient list
init_rows(h, rows, ss, i, acc) ==
    IF i > Len(rows) THEN Res(h, List(acc))
    ELSE IF IsList(rows[i])
         THEN Let(ComplexL0SequenceMD(h, rows[i], Tail(ss)),
                  LAMBDA c : IF IsRaise(c.ret) THEN c
                             ELSE init_rows(c.h, rows, ss, i + 1, Append(acc, c.ret)))
         ELSE init_rows(h, rows, ss, i + 1, acc)

\* __init__: returns the heap with the new object and a ref to it, or the
\* heap as it was and the exception
ComplexL0SequenceMD(h, coeffs, ss) ==
    IF Len(ss) = 0 THEN Res(h, Raise("IndexError"))
    ELSE IF ~IsList(coeffs) THEN Res(h, Raise("ValueError"))
    ELSE IF Len(ss) = 1
         THEN IF \A i \in 1..Len(coeffs.items) : IsNumber(coeffs.items[i])
              THEN Let(Alloc(h),
                       LAMBDA a : Res(h @@ (a :> Obj(1, ss[1],
                                                     [i \in 1..Len(coeffs.items) |->
                                                          make_complex(coeffs.items[i])])),
                                      Ref(a)))
              ELSE Res(h, Raise("ValueError"))
         ELSE Let(init_rows(h, coeffs.items, ss, 1, <<>>),
                  LAMBDA rs : IF IsRaise(rs.ret) THEN Res(h, rs.ret)
                              ELSE Let(Alloc(rs.h),
                                       LAMBDA a : Res(rs.h @@ (a :> Obj(Len(ss), ss[1], rs.ret.items)),
                                                      Ref(a))))

xsupport(o) == Range(o.start, o.start + Len(o.coeffs))

RECURSIVE support(_, _)
support(h, a) ==
    LET o == h[a]
    IN IF o.dim = 1 THEN <<xsupport(o)>>
       ELSE <<xsupport(o)>> \o
            minimal_covering_range([i \in 1..Len(o.coeffs) |-> support(h, o.coeffs[i].a)])

support_start(h, a) == [i \in 1..Len(support(h, a)) |-> support(h, a)[i].start]

RECURSIVE getitem(_, _, _)
getitem(h, a, k) ==
    LET o == h[a]
    IN IF Len(k) # o.dim THEN Raise("ValueError")
       ELSE IF InRange(k[1], xsupport(o))
            THEN IF o.dim = 1 THEN o.coeffs[k[1] - o.start + 1]
                 ELSE getitem(h, o.coeffs[k[1] - o.start + 1].a, Tail(k))
            ELSE make_complex(Zero)

\* the slots __setitem__ allocates when it grows a sequence of dimension
\* dim > 1: n new empty children, each one constructed on its own
RECURSIVE new_slots(_, _, _, _)
new_slots(h, n, dim, acc) ==
    IF n <= 0 THEN Res(h, List(acc))
    ELSE Let(ComplexL0SequenceMD(h, List(<<>>), [i \in 1..(dim - 1) |-> 0]),
             LAMBDA c : new_slots(c.h, n - 1, dim, Append(acc, c.ret)))

\* a growth that puts the new elements of the low end at the high end
grow_append(h, a, x) ==
    LET o == h[a]
        n == Len(o.coeffs)
    IN IF o.dim = 1
       THEN IF o.start + n <= x
            THEN [h EXCEPT ![a].coeffs =
                     o.coeffs \o [i \in 1..(x - o.start - n + 1) |-> make_complex(Zero)]]
            ELSE IF o.start > x
                 THEN [h EXCEPT ![a] =
                          Obj(1, x, o.coeffs \o [i \in 1..(o.start - x) |-> make_complex(Zero)])]
                 ELSE h
       ELSE IF o.start + n <= x
            THEN Let(new_slots(h, x - o.start - n + 1, o.dim, <<>>),
                     LAMBDA s : [s.h EXCEPT ![a].coeffs = o.coeffs \o s.ret.items])
            ELSE IF o.start > x
                 THEN Let(new_slots(h, o.start - x, o.dim, <<>>),
                          LAMBDA s : [s.h EXCEPT ![a] = Obj(o.dim, x, o.coeffs \o s.ret.items)])
                 ELSE h

\* the growth of the outer axis in __setitem__, before the coefficient is
\* written: the heap after it
grow(h, a, x) ==
    LET o == h[a]
        n == Len(o.coeffs)
    IN IF o.dim = 1
       THEN IF o.start + n <= x
            THEN [h EXCEPT ![a].coeffs =
                     o.coeffs \o [i \in 1..(x - o.start - n + 1) |-> make_complex(Zero)]]
            ELSE IF o.start > x
                 THEN [h EXCEPT ![a] =
                          Obj(1, x, [i \in 1..(o.start - x) |-> make_complex(Zero)] \o o.coeffs)]
                 ELSE h
       ELSE IF o.start + n <= x
            THEN Let(new_slots(h, x - o.start - n + 1, o.dim, <<>>),
                     LAMBDA s : [s.h EXCEPT ![a].coeffs = o.coeffs \o s.ret.items])
            ELSE IF o.start > x
                 THEN Let(new_slots(h, o.start - x, o.dim, <<>>),
                          LAMBDA s : [s.h EXCEPT ![a] = Obj(o.dim, x, Reverse(s.ret.items) \o o.coeffs)])
                 ELSE h

\* __setitem__: the heap after the call (grown even when the call raises
\* further down) and None or the exception
RECURSIVE setitem(_, _, _, _)
setitem(h, a, k, c) ==
    IF Len(k) = 0 THEN Res(h, Raise("IndexError"))
    ELSE Let(grow(h, a, k[1]),
             LAMBDA g :
                 LET x == k[1]
                     o == g[a]
                     pos == x - o.start + 1
                 IN IF o.dim = 1
                    THEN Res([g EXCEPT ![a].coeffs[pos] = make_complex(c)], None)
                    ELSE setitem(g, o.coeffs[pos].a, Tail(k), make_complex(c)))

RECURSIVE coeff_list(_, _, _)
coeff_list(h, a, rng) ==
    LET o == h[a]
    IN IF Len(rng) = 0 THEN Raise("IndexError")
       ELSE IF o.dim = 1
            THEN List([i \in 1..RangeLen(rng[1]) |-> getitem(h, a, <<rng[1].start + i - 1>>)])
            ELSE LET lens == [i \in 1..(Len(rng) - 1) |-> rng[i + 1].stop - rng[i + 1].start]
                     row(k) == IF (k - o.start) \in 0..(Len(o.coeffs) - 1)
                               THEN coeff_list(h, o.coeffs[k - o.start + 1].a, Tail(rng))
                               ELSE zeros(lens)
                     hcube == [i \in 1..RangeLen(rng[1]) |-> row(rng[1].start + i - 1)]
                 IN IF AnyRaise(hcube) THEN FirstRaise(hcube) ELSE List(hcube)

\* coeff_list() with rng defaulting to the support
coeff_list_support(h, a) == coeff_list(h, a, support(h, a))

\* a copy that builds a new outer object around the children of the old one
duplicate_shallow(h, a) ==
    LET n == Alloc(h)
    IN Res(h @@ (n :> h[a]), Ref(n))

duplicate(h, a) ==
    Let(coeff_list_support(h, a),
        LAMBDA cf : IF IsRaise(cf) THEN Res(h, cf)
                    ELSE ComplexL0SequenceMD(h, cf, support_start(h, a)))

\* the functions handed to the coefficient-wise helpers: [name, c]
Fn(name, c) == [name |-> name, c |-> c]

\* the quotient of Gaussian integers, exact when y divides x
true_div(x, y) ==
    LET n == y.re * y.re + y.im * y.im
    IN IF n = 0 THEN Raise("ZeroDivisionError")
       ELSE Num((x.re * y.re + x.im * y.im) \div n, (x.im * y.re - x.re * y.im) \div n)

apply1(func, x) ==
    CASE func.name = "neg" -> CNeg(x)
      [] func.name = "conj" -> conj(x)
      [] func.name = "mul" -> CMul(x, func.c)
      [] func.name = "div" -> true_div(x, func.c)

apply2(func, x, y) ==
    CASE func.name = "add" -> CAdd(x, y)
      [] func.name = "sub" -> CSub(x, y)
      [] func.name = "mul" -> CMul(x, y)

\* deep_inplace: the list after the call, or the exception func raised
RECURSIVE deep_inplace(_, _, _)
deep_inplace(l, func, reverse) ==
    IF IsList(l) /\ Len(l.items) # 0
    THEN LET its == IF reverse THEN Reverse(l.items) ELSE l.items
             out == IF IsNumber(its[1])
                    THEN [k \in 1..Len(its) |-> apply1(func, its[k])]
                    ELSE [k \in 1..Len(its) |-> deep_inplace(its[k], func, reverse)]
         IN IF AnyRaise(out) THEN FirstRaise(out) ELSE List(out)
    ELSE l

\* deep_inplace_binary: l1 after the call, or the exception
RECURSIVE deep_inplace_binary(_, _, _)
deep_inplace_binary(l1, l2, func) ==
    IF IsList(l1) /\ Len(l1.items) # 0
    THEN LET n1 == Len(l1.items)
             n2 == Len(l2.items)
             out == IF IsNumber(l1.items[1])
                    THEN [k \in 1..n1 |-> IF k <= n2 THEN apply2(func, l1.items[k], l2.items[k])
                                          ELSE Raise("IndexError")]
                    ELSE [k \in 1..n1 |-> IF k <= n2
                                          THEN deep_inplace_binary(l1.items[k], l2.items[k], func)
                                          ELSE l1.items[k]]
         IN IF AnyRaise(out) THEN FirstRaise(out) ELSE List(out)
    ELSE l1

RECURSIVE deep_truncate(_, _)
deep_truncate(l, lens) ==
    IF Len(lens) > 1
    THEN IF lens[1] > Len(l.items) THEN Raise("IndexError")
         ELSE LET out == [k \in 1..lens[1] |-> deep_truncate(l.items[k], Tail(lens))]
              IN IF AnyRaise(out) THEN FirstRaise(out) ELSE List(out)
    ELSE \* l[:n], where n < 0 counts from the end
         LET n == IF lens[1] >= 0 THEN lens[1] ELSE Len(l.items) + lens[1]
             m == IF n > Len(l.items) THEN Len(l.items) ELSE IF n < 0 THEN 0 ELSE n
         IN List(SubSeq(l.items, 1, m))

schwarz_multiplier(k) ==
    IF \A i \in 1..Len(k) : k[i] = 0 THEN 1
    ELSE IF \A i \in 1..Len(k) : k[i] <= 0 THEN 2
    ELSE 0

machine_threshold == 1

RECURSIVE is_real(_, _)
is_real(h, a) ==
    LET o == h[a]
    IN IF o.dim = 1
       THEN \A i \in 1..Len(o.coeffs) : im(o.coeffs[i]) <= machine_threshold
       ELSE \A i \in 1..Len(o.coeffs) : is_real(h, o.coeffs[i].a)

RECURSIVE is_imaginary(_, _)
is_imaginary(h, a) ==
    LET o == h[a]
    IN IF o.dim = 1
       THEN \A i \in 1..Len(o.coeffs) : re(o.coeffs[i]) <= machine_threshold
       ELSE \A i \in 1..Len(o.coeffs) : is_imaginary(h, o.coeffs[i].a)

coeffwise_unary(h, a, func) ==
    Let(coeff_list_support(h, a),
        LAMBDA cf :
            Let(IF IsRaise(cf) THEN cf ELSE deep_inplace(cf, func, FALSE),
                LAMBDA out : IF IsRaise(out) THEN Res(h, out)
                             ELSE ComplexL0SequenceMD(h, out, support_start(h, a))))

Min2(x, y) == IF x <= y THEN x ELSE y
Max2(x, y) == IF x >= y THEN x ELSE y

coeffwise_binary(h, a, b, func) ==
    LET sa == support(h, a)
        sb == support(h, b)
        n == Min2(Len(sa), Len(sb))
        union_support == [i \in 1..n |-> Range(Min2(sa[i].start, sb[i].start),
                                               Max2(sa[i].stop, sb[i].stop))]
        union_start == [i \in 1..n |-> Min2(support_start(h, a)[i], support_start(h, b)[i])]
    IN Let(coeff_list(h, a, union_support),
           LAMBDA cf1 :
               Let(IF IsRaise(cf1) THEN cf1 ELSE coeff_list(h, b, union_support),
                   LAMBDA cf2 :
                       Let(IF IsRaise(cf2) THEN cf2 ELSE deep_inplace_binary(cf1, cf2, func),
                           LAMBDA out : IF IsRaise(out) THEN Res(h, out)
                                        ELSE ComplexL0SequenceMD(h, out, union_start))))

\* q[(0,) * dim] += other / -= other on the duplicate q
add_scalar(h, a, other, func) ==
    LET k == [i \in 1..h[a].dim |-> 0]
    IN Let(duplicate(h, a),
           LAMBDA d :
               IF IsRaise(d.ret) THEN d
               ELSE Let(getitem(d.h, d.ret.a, k),
                        LAMBDA old :
                            IF IsRaise(old) THEN Res(h, old)
                            ELSE Let(setitem(d.h, d.ret.a, k, apply2(func, old, other)),
                                     LAMBDA s : IF IsRaise(s.ret) THEN Res(h, s.ret)
                                                ELSE Res(s.h, d.ret))))

\* __add__ and __sub__: other is a number or a ref
add(h, a, other) ==
    IF IsNumber(other) THEN add_scalar(h, a, other, Fn("add", Zero))
    ELSE IF other.t # "ref" THEN Res(h, Raise("TypeError"))
    ELSE coeffwise_binary(h, a, other.a, Fn("add", Zero))

neg(h, a) == coeffwise_unary(h, a, Fn("neg", Zero))

sub(h, a, other) ==
    IF IsNumber(other) THEN add_scalar(h, a, other, Fn("sub", Zero))
    ELSE IF other.t # "ref" THEN Res(h, Raise("TypeError"))
    ELSE coeffwise_binary(h, a, other.a, Fn("sub", Zero))

-----------------------------------------------------------------------------
(* The backend's transforms and util.next_power_of_two.                    *)
(* The discrete Fourier transform is taken over the ring Z_P[i], P prime,  *)
(* with a primitive N-th root of unity in Z_P for every power of two N up  *)
(* to P - 1: there it is exact, so the transform of a pointwise product is *)
(* the cyclic convolution of length N, as for the backend's transform up   *)
(* to rounding. ifft_md returns the representatives of least magnitude.    *)

P == 257
G == 3

RECURSIVE PowMod(_, _)
PowMod(b, e) ==
    IF e = 0 THEN 1
    ELSE Let(PowMod(b, e \div 2),
             LAMBDA h : IF e % 2 = 0 THEN (h * h) % P ELSE (h * h * b) % P)

\* a primitive n-th root of unity mod P, and its inverse
Root(n) == PowMod(G, (P - 1) \div n)
InvMod(x) == PowMod(x, P - 2)

RECURSIVE next_power_of_two(_)
next_power_of_two(n) == IF n <= 1 THEN 1 ELSE 2 * next_power_of_two((n + 1) \div 2)

\* c * x and x + y on nested lists of numbers, mod P
RECURSIVE ScaleArr(_, _)
ScaleArr(c, x) ==
    IF IsNumber(x) THEN Num((c * x.re) % P, (c * x.im) % P)
    ELSE List([i \in 1..Len(x.items) |-> ScaleArr(c, x.items[i])])

RECURSIVE AddArr(_, _)
AddArr(x, y) ==
    IF IsNumber(x) THEN Num((x.re + y.re) % P, (x.im + y.im) % P)
    ELSE List([i \in 1..Len(x.items) |-> AddArr(x.items[i], y.items[i])])

RECURSIVE SumArr(_, _)
SumArr(s, n) == IF n = 1 THEN s[1] ELSE AddArr(SumArr(s, n - 1), s[n])

\* the transform along the outer axis with root w: X[k] = sum_j w^(jk) x[j]
DftOuter(xs, w) ==
    LET n == Len(xs)
    IN [k \in 1..n |->
           Let([j \in 1..n |-> ScaleArr(PowMod(w, ((j - 1) * (k - 1)) % n), xs[j])],
               LAMBDA s : SumArr(s, n))]

RECURSIVE fft_md(_)
fft_md(x) ==
    IF IsNumber(x) THEN Num(x.re % P, x.im % P)
    ELSE IF Len(x.items) = 0 THEN x
    ELSE Let([i \in 1..Len(x.items) |-> fft_md(x.items[i])],
             LAMBDA xs : Let(Root(Len(x.items)), LAMBDA w : List(DftOuter(xs, w))))

Signed(v) == IF v > P \div 2 THEN v - P ELSE v

RECURSIVE ifft_md(_)
ifft_md(x) ==
    IF IsNumber(x) THEN Num(Signed(x.re % P), Signed(x.im % P))
    ELSE IF Len(x.items) = 0 THEN x
    ELSE LET n == Len(x.items)
         IN Let(DftOuter([i \in 1..n |-> ScaleArr(1, x.items[i])], InvMod(Root(n))),
                LAMBDA ys :
                    Let(InvMod(n % P),
                        LAMBDA c : List([i \in 1..n |-> ifft_md(ScaleArr(c, ys[i]))])))

-----------------------------------------------------------------------------
(* PolynomialMD *)

PolynomialMD(h, coeffs, ss) == ComplexL0SequenceMD(h, coeffs, ss)

shift(h, a, k, ax) ==
    LET t0 == support_start(h, a)
        t == [j \in 1..Len(t0) |-> t0[j] + (IF j - 1 = ax THEN k ELSE 0)]
        cf == coeff_list_support(h, a)
    IN IF IsRaise(cf) THEN Res(h, cf) ELSE PolynomialMD(h, cf, t)

conjugate(h, a) ==
    LET cf == coeff_list_support(h, a)
        out == IF IsRaise(cf) THEN cf ELSE deep_inplace(cf, Fn("conj", Zero), TRUE)
        sup == support(h, a)
    IN IF IsRaise(out) THEN Res(h, out)
       ELSE PolynomialMD(h, out, [i \in 1..Len(sup) |-> -sup[i].stop + 1])

\* itertools.product(*rngs): the index tuples in lexicographic order
RECURSIVE product(_)
product(rngs) ==
    IF Len(rngs) = 0 THEN << <<>> >>
    ELSE LET rest == product(Tail(rngs))
             n == RangeLen(rngs[1])
             m == Len(rest)
         IN [i \in 1..(n * m) |->
                <<rngs[1].start + ((i - 1) \div m)>> \o rest[((i - 1) % m) + 1]]

\* the loop of schwarz_transform over the index tuples ks[i..]
RECURSIVE schwarz_loop(_, _, _, _)
schwarz_loop(h, st, ks, i) ==
    IF i > Len(ks) THEN Res(h, Ref(st))
    ELSE Let(getitem(h, st, ks[i]),
             LAMBDA old :
                 IF IsRaise(old) THEN Res(h, old)
                 ELSE Let(setitem(h, st, ks[i], CMul(Num(schwarz_multiplier(ks[i]), 0), old)),
                          LAMBDA s : IF IsRaise(s.ret) THEN s
                                     ELSE schwarz_loop(s.h, st, ks, i + 1)))

schwarz_transform(h, a) ==
    Let(duplicate(h, a),
        LAMBDA st :
            IF IsRaise(st.ret) THEN st
            ELSE Let(product(support(h, a)),
                     LAMBDA ks : Let(schwarz_loop(st.h, st.ret.a, ks, 1),
                                     LAMBDA l : IF IsRaise(l.ret) THEN Res(h, l.ret) ELSE l)))

\* the convolution length of one axis
conv_len(la, lb) == la + lb - 1

\* __mul__ with a polynomial
mul_poly(h, a, b) ==
    LET sup_a == support(h, a)
        sup_b == support(h, b)
        n == Min2(Len(sup_a), Len(sup_b))
        len_a == [i \in 1..Len(sup_a) |-> sup_a[i].stop - sup_a[i].start]
        len_b == [i \in 1..Len(sup_b) |-> sup_b[i].stop - sup_b[i].start]
        len_c == [i \in 1..n |-> conv_len(len_a[i], len_b[i])]
        rng_a == [i \in 1..n |-> Range(sup_a[i].start, sup_a[i].start + next_power_of_two(len_c[i]))]
        rng_b == [i \in 1..n |-> Range(sup_b[i].start, sup_b[i].start + next_power_of_two(len_c[i]))]
        conv(cf1, cf2) ==
            Let(IF IsRaise(cf2) THEN cf2 ELSE deep_inplace_binary(cf1, cf2, Fn("mul", Zero)),
                LAMBDA prod :
                    Let(IF IsRaise(prod) THEN prod ELSE deep_truncate(ifft_md(prod), len_c),
                        LAMBDA out :
                            IF IsRaise(out) THEN Res(h, out)
                            ELSE PolynomialMD(h, out,
                                              [i \in 1..n |-> sup_a[i].start + sup_b[i].start])))
    IN Let(coeff_list(h, a, rng_a),
           LAMBDA l1 :
               Let(IF IsRaise(l1) THEN l1 ELSE fft_md(l1),
                   LAMBDA cf1 :
                       Let(IF IsRaise(cf1) THEN cf1 ELSE coeff_list(h, b, rng_b),
                           LAMBDA l2 :
                               Let(IF IsRaise(l2) THEN l2 ELSE fft_md(l2),
                                   LAMBDA cf2 : conv(cf1, cf2)))))

\* __mul__: other is a number or a ref
mul(h, a, other) ==
    IF IsNumber(other) THEN coeffwise_unary(h, a, Fn("mul", other))
    ELSE IF other.t # "ref" THEN Res(h, Raise("TypeError"))
    ELSE mul_poly(h, a, other.a)

truediv(h, a, other) ==
    IF IsNumber(other) THEN coeffwise_unary(h, a, Fn("div", other))
    ELSE Res(h, Raise("TypeError"))

Tuple(s) == [t |-> "tuple", items |-> s]

\* truncate(*rng): args is the tuple of the positional arguments
truncate(h, a, args) ==
    LET rng0 == IF Len(args) = 1 THEN args[1] ELSE Tuple(args)
    IN IF rng0.t = "range"
       THEN \* the loop runs over the integers of the range
            IF RangeLen(rng0) > 0 THEN Res(h, Raise("AttributeError"))
            ELSE LET cf == coeff_list(h, a, <<>>)
                 IN IF IsRaise(cf) THEN Res(h, cf) ELSE PolynomialMD(h, cf, <<>>)
       ELSE IF rng0.t # "tuple" THEN Res(h, Raise("TypeError"))
       ELSE IF \E i \in 1..Len(rng0.items) : rng0.items[i].t # "range"
            THEN Res(h, Raise("AttributeError"))
       ELSE LET rng == [i \in 1..Len(rng0.items) |->
                           Range(rng0.items[i].start, rng0.items[i].stop + 1)]
                cf == coeff_list(h, a, rng)
            IN IF IsRaise(cf) THEN Res(h, cf)
               ELSE PolynomialMD(h, cf, [i \in 1..Len(rng) |-> rng[i].start])

-----------------------------------------------------------------------------
(* The client: constructs sequences, writes coefficients, and calls the   *)
(* operations that return a new sequence or polynomial                     *)

\* the most __setitem__ calls of one run of Spec, and of one run of
\* SpecShare after the operation
MaxSets == 2
MaxShareSets == 1

\* the lengths of the index tuples the client passes: the dimension of a
\* sequence is 1 or 2, so each dimension meets a shorter or a longer tuple
Arities == {1, 2, 3}

\* the window of indices the client writes at
Idx == -1..1

\* the window of indices the properties read at
Box == -2..2
WideBox == -3..3

Tuples(S, n) == [1..n -> S]

A == Num(1, 0)
B == Num(0, -2)
C == Num(-2, 1)
D == Num(2, 2)

Vals == {A, B}

Call(op, slot, k, v, arg, ret) ==
    [op |-> op, slot |-> slot, k |-> k, v |-> v, arg |-> arg, ret |-> ret]

\* well-formed constructor arguments
SeqInputs ==
    { [c |-> List(<<>>), ss |-> <<0>>],
      [c |-> List(<<>>), ss |-> <<1>>],
      [c |-> List(<<A, C>>), ss |-> <<-1>>],
      [c |-> List(<<>>), ss |-> <<0, 0>>],
      [c |-> List(<<List(<<>>), List(<<C>>)>>), ss |-> <<1, -1>>],
      [c |-> List(<<List(<<A, Zero>>), List(<<Zero, B>>)>>), ss |-> <<-1, 0>>] }

Init ==
    \E inp \in SeqInputs :
        \E c \in {ComplexL0SequenceMD(<<>>, inp.c, inp.ss)} :
           /\ heap = c.h
           /\ slots = [p |-> c.ret, q |-> None, r |-> None]
           /\ last = Call("init", "p", <<>>, Zero, None, c.ret)
           /\ nset = 0

\* slots[s][k] = v
SetItem(s, k, v) ==
    /\ slots[s].t = "ref"
    /\ \E res \in {setitem(heap, slots[s].a, k, v)} :
          /\ heap' = res.h
          /\ last' = Call("set", s, k, v, None, res.ret)
    /\ nset' = nset + 1
    /\ UNCHANGED slots

Next ==
    \E s \in {"p", "q", "r"}, n \in Arities, v \in Vals :
        \E k \in Tuples(Idx, n) : nset < MaxSets /\ SetItem(s, k, v)

Spec == Init /\ [][Next]_vars

-----------------------------------------------------------------------------
(* The operations: r = op(p, ...), called once *)

\* polynomials the client holds: constructor arguments, and the index and
\* value of a coefficient written afterwards (none when k is empty)
PolyInputs1 ==
    { [c |-> List(<<>>), ss |-> <<0>>, k |-> <<>>],
      [c |-> List(<<C>>), ss |-> <<0>>, k |-> <<>>],
      [c |-> List(<<A, C>>), ss |-> <<-1>>, k |-> <<>>],
      [c |-> List(<<A, B, C>>), ss |-> <<-1>>, k |-> <<>>],
      [c |-> List(<<B, Zero, A>>), ss |-> <<0>>, k |-> <<>>],
      [c |-> List(<<C>>), ss |-> <<1>>, k |-> <<-1>>] }

PolyInputs2 ==
    { [c |-> List(<<>>), ss |-> <<0, 0>>, k |-> <<>>],
      [c |-> List(<<List(<<>>), List(<<>>)>>), ss |-> <<0, 0>>, k |-> <<>>],
      [c |-> List(<<List(<<C>>)>>), ss |-> <<0, 0>>, k |-> <<>>],
      [c |-> List(<<List(<<A, B>>), List(<<C, A>>)>>), ss |-> <<-1, 0>>, k |-> <<>>],
      [c |-> List(<<List(<<A>>), List(<<B, C>>), List(<<>>)>>), ss |-> <<-1, -1>>, k |-> <<>>],
      [c |-> List(<<List(<<A, C>>)>>), ss |-> <<0, 0>>, k |-> <<1, -1>>] }

\* the polynomial of an input, built on heap h
Build(h, inp) ==
    Let(PolynomialMD(h, inp.c, inp.ss),
        LAMBDA c : IF Len(inp.k) = 0 THEN c
                   ELSE Res(setitem(c.h, c.ret.a, inp.k, D).h, c.ret))

InitOperands(P1, Q1, P2, Q2) ==
    \E pair \in (P1 \X Q1) \cup (P2 \X Q2) :
        \E bp \in {Build(<<>>, pair[1])} :
        \E bq \in {Build(bp.h, pair[2])} :
           /\ heap = bq.h
           /\ slots = [p |-> bp.ret, q |-> bq.ret, r |-> None]
           /\ last = Call("init", "p", <<>>, Zero, None, None)
           /\ nset = 0

\* constructor arguments, well-formed and malformed
CtorInputs ==
    { [c |-> List(<<A, C>>), ss |-> <<0>>],
      [c |-> List(<<List(<<A>>), List(<<B, C>>)>>), ss |-> <<0, -1>>],
      [c |-> Str, ss |-> <<0>>],
      [c |-> Str, ss |-> <<0, 0>>],
      [c |-> List(<<A, Str>>), ss |-> <<0>>],
      [c |-> List(<<List(<<A>>)>>), ss |-> <<0>>],
      [c |-> List(<<A, C>>), ss |-> <<0, 0>>],
      [c |-> List(<<List(<<A>>), C>>), ss |-> <<0, 0>>],
      [c |-> List(<<List(<<A>>), Str>>), ss |-> <<0, 0>>],
      [c |-> List(<<List(<<List(<<A>>)>>)>>), ss |-> <<0, 0>>] }

Scalars == {Num(2, 0), Num(0, 1)}
Divisors == {Num(-1, 0), Num(0, 1), Zero}

\* the positional arguments of truncate: ranges, or one tuple of ranges
TruncArgs ==
    { <<Range(0, 2)>>,
      <<Range(1, 0)>>,
      <<Tuple(<<Range(0, 2)>>)>>,
      <<Tuple(<<Range(-2, 0)>>)>>,
      <<Range(0, 2), Range(0, 2)>>,
      <<Range(-1, 0), Range(0, 1)>>,
      <<Range(0, 1), Range(1, 0)>>,
      <<Tuple(<<Range(-1, 0), Range(0, 1)>>)>> }

\* r = <the call>: res is its result
Op(op, k, v, arg, res) ==
    /\ last.op = "init"
    /\ slots.p.t = "ref" /\ slots.q.t = "ref"
    /\ \E r \in {res} :
           /\ heap' = r.h
           /\ slots' = [slots EXCEPT !.r = IF r.ret.t = "ref" THEN r.ret ELSE None]
           /\ last' = Call(op, "r", k, v, arg, r.ret)
    /\ UNCHANGED nset

Construct ==
    \E inp \in CtorInputs :
        Op("construct", inp.ss, Zero, inp.c, ComplexL0SequenceMD(heap, inp.c, inp.ss))

Duplicate == Op("duplicate", <<>>, Zero, None, duplicate(heap, slots.p.a))

Add ==
    \E other \in Scalars \cup {slots.q, Str} :
        Op("add", <<>>, Zero, other, add(heap, slots.p.a, other))

Sub ==
    \E other \in Scalars \cup {slots.q, Str} :
        Op("sub", <<>>, Zero, other, sub(heap, slots.p.a, other))

Neg == Op("neg", <<>>, Zero, None, neg(heap, slots.p.a))

Mul ==
    \E other \in Scalars \cup {slots.q, Str} :
        Op("mul", <<>>, Zero, other, mul(heap, slots.p.a, other))

TrueDiv ==
    \E other \in Divisors \cup {slots.q} :
        Op("truediv", <<>>, Zero, other, truediv(heap, slots.p.a, other))

Shift ==
    \E k \in {-1, 1}, ax \in {0, 1} :
        Op("shift", <<k, ax>>, Zero, None, shift(heap, slots.p.a, k, ax))

Conjugate == Op("conjugate", <<>>, Zero, None, conjugate(heap, slots.p.a))

SchwarzTransform == Op("schwarz_transform", <<>>, Zero, None, schwarz_transform(heap, slots.p.a))

Truncate ==
    \E args \in TruncArgs :
        Op("truncate", <<>>, Zero, Tuple(args), truncate(heap, slots.p.a, args))

Operation ==
    \/ Construct
    \/ Duplicate
    \/ Add
    \/ Sub
    \/ Neg
    \/ Mul
    \/ TrueDiv
    \/ Shift
    \/ Conjugate
    \/ SchwarzTransform
    \/ Truncate

InitPoly == InitOperands(PolyInputs1, PolyInputs1, PolyInputs2, PolyInputs2)

SpecPoly == InitPoly /\ [][Operation]_vars

-----------------------------------------------------------------------------
(* The operations, then writes to the operands and to the result *)

ShareInputs1 ==
    { [c |-> List(<<>>), ss |-> <<0>>, k |-> <<>>],
      [c |-> List(<<A, C>>), ss |-> <<-1>>, k |-> <<>>] }

ShareInputs2 ==
    { [c |-> List(<<>>), ss |-> <<0, 0>>, k |-> <<>>],
      [c |-> List(<<List(<<A, B>>), List(<<C, A>>)>>), ss |-> <<-1, 0>>, k |-> <<>>],
      [c |-> List(<<List(<<A, C>>)>>), ss |-> <<0, 0>>, k |-> <<1, -1>>] }

ShareOther1 == { [c |-> List(<<C, B>>), ss |-> <<0>>, k |-> <<>>] }

ShareOther2 == { [c |-> List(<<List(<<C>>), List(<<B>>)>>), ss |-> <<0, 0>>, k |-> <<>>] }

InitShare == InitOperands(ShareInputs1, ShareOther1, ShareInputs2, ShareOther2)

SetAfter ==
    \E s \in {"p", "q", "r"} :
        /\ last.op # "init"
        /\ nset < MaxShareSets
        /\ slots[s].t = "ref"
        /\ \E k \in Tuples(Idx, heap[slots[s].a].dim) : SetItem(s, k, D)

NextShare == Operation \/ SetAfter

SpecShare == InitShare /\ [][NextShare]_vars

-----------------------------------------------------------------------------
(* Properties *)

Refs == {s \in {"p", "q", "r"} : slots[s].t = "ref"}

Dim(s) == heap[slots[s].a].dim

\* k is outside support() on at least one axis (an axis support() does not
\* report holds no coefficient at all)
OutsideSupport(h, a, k) ==
    LET sup == support(h, a)
    IN \E i \in 1..Len(k) : i > Len(sup) \/ ~InRange(k[i], sup[i])

\* C1: zero-extension transparency. After construction and any sequence of
\* set operations, get(k) with a d-tuple k outside support() on some axis
\* returns 0 and does not raise; so every nonzero coefficient lies inside
\* support() on every axis.
C1_ZeroOutsideSupport ==
    \A s \in Refs :
        \A k \in Tuples(Box, Dim(s)) :
            OutsideSupport(heap, slots[s].a, k) => getitem(heap, slots[s].a, k) = Zero

\* a two-dimensional sequence grown by set, with a nonzero coefficient, whose
\* children start at different indices, read inside the outer range but
\* outside the inner one
C1_Witness ==
    /\ slots.p.t = "ref"
    /\ Dim("p") = 2
    /\ last.op = "set" /\ last.ret = None /\ Len(last.k) = 2
    /\ LET a == slots.p.a
           o == heap[a]
       IN /\ \E i, j \in 1..Len(o.coeffs) :
                 /\ Len(heap[o.coeffs[i].a].coeffs) > 0
                 /\ Len(heap[o.coeffs[j].a].coeffs) > 0
                 /\ heap[o.coeffs[i].a].start # heap[o.coeffs[j].a].start
          /\ \E k \in Tuples(Box, 2) :
                 /\ InRange(k[1], support(heap, a)[1])
                 /\ ~InRange(k[2], support(heap, a)[2])
                 /\ getitem(heap, a, k) = Zero
          /\ \E k \in Tuples(Box, 2) : getitem(heap, a, k) # Zero

\* C2: set(index, value) with a d-tuple index returns normally, after it
\* get(index) is value, and get(j) is what it was for every other d-tuple j.
C2_SetWritesOne ==
    [][(last'.op = "set" /\ Len(last'.k) = Dim(last'.slot)) =>
          LET a == slots[last'.slot].a
          IN /\ last'.ret = None
             /\ getitem(heap', a, last'.k) = last'.v
             /\ \A j \in Tuples(Box, Dim(last'.slot)) \ {last'.k} :
                    getitem(heap', a, j) = getitem(heap, a, j)]_vars

\* a set below the low end of the outer axis of a two-dimensional sequence
\* that already holds a nonzero coefficient
C2_Witness ==
    /\ last.op = "set" /\ last.ret = None /\ Len(last.k) = 2
    /\ nset >= 2
    /\ Dim(last.slot) = 2
    /\ LET a == slots[last.slot].a
       IN /\ heap[a].start = last.k[1]
          /\ Len(heap[a].coeffs) >= 3
          /\ getitem(heap, a, last.k) = last.v
          /\ \E j \in Tuples(Box, 2) \ {last.k} : getitem(heap, a, j) # Zero

\* the coefficients an object stores
RECURSIVE StoredCoeffs(_, _)
StoredCoeffs(h, a) ==
    LET o == h[a]
    IN IF o.dim = 1 THEN {o.coeffs[i] : i \in 1..Len(o.coeffs)}
       ELSE UNION {StoredCoeffs(h, o.coeffs[i].a) : i \in 1..Len(o.coeffs)}

Abs(x) == IF x < 0 THEN -x ELSE x

\* C8: is_real() is true iff the imaginary part of every stored coefficient
\* has magnitude at most the machine threshold, and is_imaginary() is true
\* iff the real part of every stored coefficient has.
C8_RealityChecks ==
    \A s \in Refs :
        LET a == slots[s].a
        IN /\ is_real(heap, a) <=>
                  \A c \in StoredCoeffs(heap, a) : Abs(im(c)) <= machine_threshold
           /\ is_imaginary(heap, a) <=>
                  \A c \in StoredCoeffs(heap, a) : Abs(re(c)) <= machine_threshold

\* C9: with an index tuple whose length is not the dimension, get raises,
\* and set raises and leaves the coefficients and the support as they were.
C9_ArityMismatchRaises ==
    /\ [](\A s \in Refs :
             \A n \in Arities \ {Dim(s)} :
                 \A k \in Tuples(Idx, n) : IsRaise(getitem(heap, slots[s].a, k)))
    /\ [][(last'.op = "set" /\ Len(last'.k) # Dim(last'.slot)) =>
             LET a == slots[last'.slot].a
             IN /\ IsRaise(last'.ret)
                /\ support(heap', a) = support(heap, a)
                /\ \A j \in Tuples(Box, Dim(last'.slot)) :
                       getitem(heap', a, j) = getitem(heap, a, j)]_vars

-----------------------------------------------------------------------------
(* Properties of the operations: p and q are the operands in the state     *)
(* before the call, r the result in the state after it                     *)

RefP == slots.p.a
RefQ == slots.q.a
RefR1 == slots'.r.a

NegK(k) == [i \in 1..Len(k) |-> -k[i]]
SubK(k, i) == [n \in 1..Len(k) |-> k[n] - i[n]]

\* the sum of the complex numbers f[1..n]
RECURSIVE CSum(_, _)
CSum(f, n) == IF n = 0 THEN Zero ELSE CAdd(CSum(f, n - 1), f[n])

\* sum over i of p_i * q_(k - i), i over the support of p
Convolution(h, a, b, k) ==
    LET is == product(support(h, a))
    IN CSum([n \in 1..Len(is) |-> CMul(getitem(h, a, is[n]), getitem(h, b, SubK(k, is[n])))],
            Len(is))

\* the operand at address a reads the same before and after the step
Kept(a) ==
    /\ a \in DOMAIN heap'
    /\ support(heap', a) = support(heap, a)
    /\ \A k \in Tuples(WideBox, heap[a].dim) : getitem(heap', a, k) = getitem(heap, a, k)

\* the result is a polynomial of dimension d whose support() has d axes
ResultOfDim(d) ==
    /\ slots'.r.t = "ref"
    /\ heap'[RefR1].dim = d
    /\ Len(support(heap', RefR1)) = d

\* r is the linear convolution of p and q
IsProduct ==
    LET d == heap[RefP].dim
        sa == support(heap, RefP)
        sb == support(heap, RefQ)
    IN /\ ResultOfDim(d)
       /\ Len(sa) = d /\ Len(sb) = d
       /\ LET sr == support(heap', RefR1)
          IN /\ \A i \in 1..d :
                    /\ sr[i].start = sa[i].start + sb[i].start
                    /\ sr[i].stop - sr[i].start =
                           Max2(0, (sa[i].stop - sa[i].start) + (sb[i].stop - sb[i].start) - 1)
             /\ LET ks == product([i \in 1..d |-> Range(sr[i].start - 1, sr[i].stop + 1)])
                IN \A n \in 1..Len(ks) :
                       getitem(heap', RefR1, ks[n]) = Convolution(heap, RefP, RefQ, ks[n])

\* C4: p * q has support start the sum of the operands' support starts,
\* support length len_p + len_q - 1 on every axis (none where both operands
\* are empty), and coefficient r_k = sum over i of p_i * q_(k-i) at every k.
C4_MulIsConvolution ==
    [][(last'.op = "mul" /\ last'.arg.t = "ref") => IsProduct]_vars

\* both operands store at least one coefficient on every axis
NonDegenerate(h, a) ==
    /\ Len(support(h, a)) = h[a].dim
    /\ \A i \in 1..h[a].dim : RangeLen(support(h, a)[i]) >= 1

\* the product of operands that store a coefficient on every axis
MulNonDegenerate ==
    [][(/\ last'.op = "mul" /\ last'.arg.t = "ref"
        /\ NonDegenerate(heap, RefP) /\ NonDegenerate(heap, RefQ)) => IsProduct]_vars

\* r is the conjugate of p
IsConjugate ==
    LET d == heap[RefP].dim
        sp == support(heap, RefP)
    IN /\ ResultOfDim(d)
       /\ Len(sp) = d
       /\ \A i \in 1..d : support(heap', RefR1)[i].start = -sp[i].stop + 1
       /\ \A k \in Tuples(WideBox, d) :
              getitem(heap', RefR1, k) = conj(getitem(heap, RefP, NegK(k)))
       /\ LET cc == conjugate(heap', RefR1)
          IN /\ cc.ret.t = "ref"
             /\ support(cc.h, cc.ret.a) = sp
             /\ \A k \in Tuples(WideBox, d) :
                    getitem(cc.h, cc.ret.a, k) = getitem(heap, RefP, k)

\* C6: conjugate() returns p* with p*_k = conj(p_(-k)) at every multi-index
\* k, its support start is -(old stop) + 1 on each axis, and the conjugate
\* of the conjugate has the support and the coefficients of p.
C6_ConjugateInvolution ==
    [][last'.op = "conjugate" => IsConjugate]_vars

ConjugateNonDegenerate ==
    [][(last'.op = "conjugate" /\ NonDegenerate(heap, RefP)) => IsConjugate]_vars

\* the multiplier of the Schwarz transform as the specification states it
Multiplier(k) ==
    IF \A i \in 1..Len(k) : k[i] = 0 THEN 1
    ELSE IF \E i \in 1..Len(k) : k[i] > 0 THEN 0
    ELSE 2

IsSchwarz ==
    LET d == heap[RefP].dim
    IN /\ ResultOfDim(d)
       /\ \A k \in Tuples(WideBox, d) :
              getitem(heap', RefR1, k) = CMul(Num(Multiplier(k), 0), getitem(heap, RefP, k))
       /\ Kept(RefP)

\* C7: schwarz_transform() returns a new polynomial whose coefficient at
\* every k is m(k) times that of the operand, m(k) = 1 at the zero vector,
\* 2 when no component is positive, 0 otherwise; the operand is unchanged.
C7_SchwarzMultiplier ==
    [][last'.op = "schwarz_transform" => IsSchwarz]_vars

SchwarzNonDegenerate ==
    [][(last'.op = "schwarz_transform" /\ NonDegenerate(heap, RefP)) => IsSchwarz]_vars

\* the arguments are one range for each of the d axes
OneRangePerAxis(args, d) ==
    /\ Len(args) = d
    /\ \A i \in 1..d : args[i].t = "range"

IsTruncation(args) ==
    LET d == heap[RefP].dim
    IN /\ ResultOfDim(d)
       /\ \A k \in Tuples(WideBox, d) :
              getitem(heap', RefR1, k) =
                  IF \A i \in 1..d : args[i].start <= k[i] /\ k[i] <= args[i].stop
                  THEN getitem(heap, RefP, k)
                  ELSE Zero

\* C5: truncate with one range per axis returns a new polynomial that keeps
\* the coefficients whose index lies between start and stop, both included,
\* on every axis, reads 0 elsewhere, and raises nothing.
C5_TruncateInclusive ==
    [][(last'.op = "truncate" /\ OneRangePerAxis(last'.arg.items, heap[RefP].dim)) =>
          IsTruncation(last'.arg.items)]_vars

\* the same for two axes or more
TruncateTwoAxes ==
    [][(/\ last'.op = "truncate" /\ heap[RefP].dim >= 2
        /\ OneRangePerAxis(last'.arg.items, heap[RefP].dim)) =>
          IsTruncation(last'.arg.items)]_vars

\* a coefficient container of nesting depth d
RECURSIVE WellFormed(_, _)
WellFormed(c, d) ==
    /\ d >= 1
    /\ IsList(c)
    /\ \A i \in 1..Len(c.items) :
           IF d = 1 THEN IsNumber(c.items[i]) ELSE WellFormed(c.items[i], d - 1)

\* C10: constructing from a container that is not a list, or whose nesting
\* depth is not the length of support_start, raises.
C10_MalformedRaises ==
    (last.op = "construct" /\ ~WellFormed(last.arg, Len(last.k))) => IsRaise(last.ret)

\* the number of references to the object at address a: from the client's
\* variables and from the coefficient lists of the objects
RefCount(a) ==
    Cardinality({s \in {"p", "q", "r"} : slots[s] = Ref(a)})
    + Cardinality({bi \in UNION {{<<b, i>> : i \in 1..Len(heap[b].coeffs)} :
                                     b \in {b \in DOMAIN heap : heap[b].dim > 1}} :
                      heap[bi[1]].coeffs[bi[2]] = Ref(a)})

\* C3: no object is referenced twice (two slots of a sequence, or two
\* sequences, never share a child; no result is an operand); an operation
\* leaves its operands reading the same; a set on one sequence leaves the
\* other sequences reading the same.
C3_NoSharedStorage ==
    /\ [](\A a \in DOMAIN heap : RefCount(a) <= 1)
    /\ [][/\ (last'.op \notin {"set", "init"}) => (Kept(RefP) /\ Kept(RefQ))
          /\ (last'.op = "set") =>
                 \A s \in {"p", "q", "r"} \ {last'.slot} :
                     slots[s].t = "ref" => Kept(slots[s].a)]_vars

\* a coefficient of a two-dimensional result overwritten where the operand
\* stores another nonzero coefficient
C3_Witness ==
    /\ last.op = "set" /\ last.slot = "r" /\ last.ret = None
    /\ slots.r.t = "ref" /\ heap[slots.r.a].dim = 2 /\ heap[slots.p.a].dim = 2
    /\ getitem(heap, slots.r.a, last.k) = D
    /\ getitem(heap, slots.p.a, last.k) \notin {D, Zero}
    /\ Len(heap[slots.r.a].coeffs) >= 2

-----------------------------------------------------------------------------
(* Properties of duplicate and of the operations built on it *)

\* r has the dimension of p, a support() with one range per axis, and the
\* coefficients of p
IsDuplicate ==
    LET d == heap[RefP].dim
    IN /\ ResultOfDim(d)
       /\ \A k \in Tuples(WideBox, d) : getitem(heap', RefR1, k) = getitem(heap, RefP, k)

\* the operations that start from duplicate() or from support_start
BuiltOnDuplicate ==
    \/ last'.op \in {"neg", "shift", "schwarz_transform"}
    \/ last'.op = "add" /\ IsNumber(last'.arg)

\* C11: duplicate() returns a sequence of the dimension d of the original,
\* whose support() has d ranges and whose coefficient at every d-tuple is
\* the original's; p + scalar, unary negation, shift and schwarz_transform
\* return a sequence of dimension d whose support() has d ranges.
C11_DuplicatePreservesDimension ==
    [][/\ (last'.op = "duplicate") => IsDuplicate
       /\ BuiltOnDuplicate => ResultOfDim(heap[RefP].dim)]_vars

\* the same for the sequences whose support() has one range per axis
DuplicateFullSupport ==
    [][(Len(support(heap, RefP)) = heap[RefP].dim) =>
           /\ (last'.op = "duplicate") => IsDuplicate
           /\ BuiltOnDuplicate => ResultOfDim(heap[RefP].dim)]_vars

====
